---- MODULE Spec2Model ----
(***************************************************************************)
(* A model of run/run.py of the WPT dashboard: one execution of the run    *)
(* pipeline (main, setup_wpt, patch_wpt, the environment verifiers) and    *)
(* the result summarizer (report_to_summary).                              *)
(*                                                                         *)
(* Python's AssertionError, CalledProcessError, IOError and OSError all    *)
(* propagate out of main and end the process; the model records that as    *)
(* outcome = "failed".  A return from main is outcome = "ok".              *)
(***************************************************************************)
EXTENDS Integers, Sequences, FiniteSets, TLC

VARIABLES
    pc,          \* position in main / setup_wpt ("done" once the process ended)
    outcome,     \* "running", "ok" (main returned) or "failed" (exception)
    args,        \* parse_args(): upload, create_testrun, wpt_sha
    platform,    \* the platform descriptor of browsers.json (os_version mutable)
    config,      \* get_config(): secret, gs_results_bucket
    host,        \* the executing host: os name and release, tools installed
    wpt_sha,     \* the revision setup_wpt returned
    report,      \* the wptreport document the runner wrote
    summary,     \* result of report_to_summary: [failed, test_files]
    written,     \* number of per-test artifacts written (loop of run.py:197)
    log,         \* history: the externally visible steps taken, in order
    vstring,     \* argument of version_string_to_major_minor: [absent, chars]
    matched      \* its result: [failed, value]

vars == <<pc, outcome, args, platform, config, host, wpt_sha, report, summary, written, log,
          vstring, matched>>

----------------------------------------------------------------------------
(* Bounds of the summarizer's input space.                                 *)

\* most results in a generated report
MaxResults == 3
\* most subtests in a generated report, over all its results
MaxSubtests == 2

Paths == {"/a.html", "/b.html"}
Statuses == {"PASS", "OK", "FAIL"}

----------------------------------------------------------------------------
(* report_to_summary, run.py:318-337.  A Python dict is a function whose   *)
(* domain is its key set; the two-element list [pass, total] is a tuple.   *)

EmptyDict == [p \in {} |-> <<0, 0>>]

DictPut(d, k, v) == [p \in (DOMAIN d) \cup {k} |-> IF p = k THEN v ELSE d[p]]

\* run.py:326-329
InitialCounts(status) == IF status \in {"OK", "PASS"} THEN <<1, 1>> ELSE <<0, 1>>

\* faulty variant: the total is incremented inside the PASS branch
SubtestStep_TotalOnPass(counts, subtest) ==
    IF subtest.status = "PASS" THEN <<counts[1] + 1, counts[2] + 1>> ELSE counts

\* faulty variant: subtests use the top-level passing set
SubtestStep_OkPasses(counts, subtest) ==
    <<counts[1] + (IF subtest.status \in {"OK", "PASS"} THEN 1 ELSE 0), counts[2] + 1>>

\* run.py:332-335, one iteration of the inner loop
SubtestStep(counts, subtest) ==
    <<counts[1] + (IF subtest.status = "PASS" THEN 1 ELSE 0), counts[2] + 1>>

\* run.py:331-335, the inner loop from subtest j on
RECURSIVE SubtestLoop(_, _, _)
SubtestLoop(counts, subtests, j) ==
    IF j > Len(subtests) THEN counts
    ELSE SubtestLoop(SubtestStep(counts, subtests[j]), subtests, j + 1)

\* faulty variant: the assertion is gone, a repeated path overwrites its entry
DuplicateTest_Unchecked(test_files, test_file) == FALSE

\* run.py:323, the assertion that guards each iteration of the outer loop
DuplicateTest(test_files, test_file) == test_file \in DOMAIN test_files

\* run.py:321-337, the outer loop from result i on; failed = AssertionError
RECURSIVE ResultLoop(_, _, _)
ResultLoop(test_files, results, i) ==
    IF i > Len(results) THEN [failed |-> FALSE, test_files |-> test_files]
    ELSE LET result == results[i]
             test_file == result.test
         IN IF DuplicateTest(test_files, test_file)
            THEN [failed |-> TRUE, test_files |-> EmptyDict]
            ELSE ResultLoop(
                    DictPut(test_files, test_file,
                            SubtestLoop(InitialCounts(result.status),
                                        result.subtests, 1)),
                    results, i + 1)

report_to_summary(wpt_report) == ResultLoop(EmptyDict, wpt_report.results, 1)

NoSummary == [failed |-> FALSE, test_files |-> EmptyDict]

----------------------------------------------------------------------------
(* Inputs of a run: command line, platform registry entry, configuration,  *)
(* host.  Versions are already in major.minor form here.                   *)

\* argparse's default for --wpt_sha (run.py:435-438)
None == "<None>"

\* Python truthiness of an optional string: None and "" are falsy
Truthy(s) == s \notin {None, ""}

ArgsSet == [upload : BOOLEAN, create_testrun : BOOLEAN,
            wpt_sha : {None, "", "sha_explicit"}]

PlatformSet == [browser_name : {"chrome", "firefox", "edge"},
                browser_version : {"56.0"},
                os_name : {"linux"},
                os_version : {"*", "16.04"},
                sauce : BOOLEAN]

\* run.py:75, the length a registration secret must have
SecretLen == 64

ConfigSet == [secret_len : {SecretLen - 1, SecretLen},
              gs_results_bucket : {"wptd", "wptd-staging"}]

HostSet == [os_name : {"linux", "darwin"},
            os_release : {"16.04", "18.04"},
            gsutil : BOOLEAN]

\* what `<binary> --version` can answer; Missing = the binary cannot be executed
Missing == "<missing>"
BinaryVersions == {"56.0", "57.0", Missing}

\* exit codes of a child process
ExitCodes == {0, 1}

\* HTTP statuses the registration endpoint may answer with
HttpStatuses == {201, 200, 404, 500}

\* shas.SHAFinder: today's designated revision may be undefined, HEAD never is
TodaysShaResults == {None, "sha_today"}
HeadShaResults == {"sha_head"}

\* reports the test runner may leave behind in a run
Res(t, s, subs) == [test |-> t, status |-> s, subtests |-> subs]
Sub(s) == [status |-> s]
RunnerReports ==
    { <<>>,
      << Res("/a.html", "PASS", <<Sub("PASS"), Sub("FAIL")>>),
         Res("/b.html", "FAIL", <<>>) >>,
      << Res("/a.html", "OK", <<Sub("OK")>>) >>,
      << Res("/a.html", "PASS", <<>>), Res("/a.html", "FAIL", <<>>) >> }

NoReport == [present |-> FALSE, results |-> <<>>]

----------------------------------------------------------------------------
(* version_string_to_major_minor, run.py:278-280.  A string is a sequence  *)
(* of one-character strings.                                               *)

\* longest version string generated
MaxLen == 6

Chars == {"1", "2", ".", "x", "\n"}

IsDigit(c) == c \in {"0", "1", "2", "3", "4", "5", "6", "7", "8", "9"}

\* regular expression `.`: any character but a newline
AnyChar(c) == c # "\n"

\* regular expression `[0-9]{1,n}`, greedy: how many digits it takes at i
RECURSIVE DigitRun(_, _, _)
DigitRun(s, i, n) ==
    IF n = 0 \/ i > Len(s) \/ ~IsDigit(s[i]) THEN 0
    ELSE 1 + DigitRun(s, i + 1, n - 1)

\* the pattern of run.py:280 with a digits before the separator, anchored at i
MatchesWith(s, i, a) ==
    /\ a >= 1
    /\ DigitRun(s, i, a) = a
    /\ i + a <= Len(s)
    /\ AnyChar(s[i + a])
    /\ DigitRun(s, i + a + 1, 3) >= 1

\* the backtracking matcher anchored at i: the longest first group that lets
\* the rest match; 0 = no match at i
RECURSIVE FirstGroup(_, _, _)
FirstGroup(s, i, a) ==
    IF a = 0 THEN 0
    ELSE IF MatchesWith(s, i, a) THEN a
    ELSE FirstGroup(s, i, a - 1)

\* re.search: the leftmost position at which the pattern matches; 0 = None
RECURSIVE SearchFrom(_, _)
SearchFrom(s, i) ==
    IF i > Len(s) THEN 0
    ELSE IF FirstGroup(s, i, 3) > 0 THEN i
    ELSE SearchFrom(s, i + 1)

NoVersion == [absent |-> TRUE, chars |-> <<>>]
NoMatch == [failed |-> FALSE, value |-> <<>>]

\* run.py:278-280; failed = AssertionError, or AttributeError on None.group
version_string_to_major_minor(v) ==
    IF v.absent \/ v.chars = <<>>
    THEN [failed |-> TRUE, value |-> <<>>]
    ELSE LET s == v.chars
             i == SearchFrom(s, 1)
             a == FirstGroup(s, i, 3)
             b == DigitRun(s, i + a + 1, 3)
         IN IF i = 0
            THEN [failed |-> TRUE, value |-> <<>>]
            ELSE [failed |-> FALSE, value |-> SubSeq(s, i, i + a + b)]

Strings(n) == UNION {[1..k -> Chars] : k \in 0..n}

InitVer ==
    /\ pc = "match"
    /\ outcome = "running"
    /\ args = [upload |-> FALSE, create_testrun |-> FALSE, wpt_sha |-> None]
    /\ platform = [browser_name |-> "chrome", browser_version |-> "56.0",
                   os_name |-> "linux", os_version |-> "16.04", sauce |-> FALSE]
    /\ config = [secret_len |-> SecretLen, gs_results_bucket |-> "wptd"]
    /\ host = [os_name |-> "linux", os_release |-> "16.04", gsutil |-> TRUE]
    /\ wpt_sha = None
    /\ report = NoReport
    /\ summary = NoSummary
    /\ written = 0
    /\ log = <<>>
    /\ \/ vstring = NoVersion
       \/ \E s \in Strings(MaxLen) : vstring = [absent |-> FALSE, chars |-> s]
    /\ matched = NoMatch

\* run.py:278-280 applied to the generated string
CallVersionMatcher ==
    /\ pc = "match"
    /\ matched' = version_string_to_major_minor(vstring)
    /\ pc' = "done"
    /\ outcome' = IF matched'.failed THEN "failed" ELSE "ok"
    /\ UNCHANGED <<args, platform, config, host, wpt_sha, report, summary,
                   written, log, vstring>>

NextVer == CallVersionMatcher

SpecVer == InitVer /\ [][NextVer]_vars

----------------------------------------------------------------------------
(* History entries: the step, up to two of its arguments, its exit or      *)
(* status code.                                                            *)

Ev(ev, a1, a2, rc) == [ev |-> ev, a1 |-> a1, a2 |-> a2, rc |-> rc]

Did(ev) == \E i \in 1..Len(log) : log[i].ev = ev

\* an exception leaves main: the process ends with a traceback
Raise == pc' = "done" /\ outcome' = "failed"

\* main returns
Return == pc' = "done" /\ outcome' = "ok"

Goto(l) == pc' = l /\ outcome' = outcome

----------------------------------------------------------------------------
(* The environment verifiers, run.py:283-315.  TRUE = returns normally.    *)

\* faulty variant: any binary that runs is accepted, whatever its version
verify_browser_binary_version_AnyVersion(p, version) == version # Missing

\* run.py:283-294; version is the binary's answer (Missing raises OSError)
verify_browser_binary_version(p, version) ==
    version # Missing /\ version = p.browser_version

\* run.py:297-302
verify_os_name(p, h) == h.os_name = p.os_name

\* faulty variant: the wildcard is accepted but os_version is not set
verify_or_set_os_version_NoSet(p, h) ==
    IF p.os_version = "*"
    THEN [passed |-> TRUE, platform |-> p]
    ELSE [passed |-> h.os_release = p.os_version, platform |-> p]

\* run.py:305-315; returns whether it passed and the platform it leaves
verify_or_set_os_version(p, h) ==
    IF p.os_version = "*"
    THEN [passed |-> TRUE, platform |-> [p EXCEPT !.os_version = h.os_release]]
    ELSE [passed |-> h.os_release = p.os_version, platform |-> p]

\* faulty variant: subprocess.call, whose exit code nobody reads
check_call_Unchecked(rc) == TRUE

\* subprocess.check_call: raises CalledProcessError unless the exit code is 0
check_call(rc) == rc = 0

----------------------------------------------------------------------------
(* The script body, run.py:444-448, and main, run.py:54-97: pre-flight.    *)

Init ==
    /\ pc = "platform"
    /\ outcome = "running"
    /\ args \in ArgsSet
    /\ platform \in PlatformSet
    /\ config \in ConfigSet
    /\ host \in HostSet
    /\ wpt_sha = None
    /\ report = NoReport
    /\ summary = NoSummary
    /\ written = 0
    /\ log = <<>>
    /\ vstring = NoVersion
    /\ matched = NoMatch

\* run.py:446 and 270-275: the platform id must be a key of browsers.json
GetAndValidatePlatform ==
    /\ pc = "platform"
    /\ \E known \in BOOLEAN :
         IF known
         THEN Goto("config") /\ log' = log
         ELSE Raise /\ log' = Append(log, Ev("platform_unknown", "", "", 0))
    /\ UNCHANGED <<vstring, matched, args, platform, config, host, wpt_sha, report, summary, written>>

\* run.py:363: sys.exit() without an argument ends the process with status 0
SysExit == pc' = "done" /\ outcome' = "ok"

\* run.py:447 and 356-363: run/running.ini must exist
GetConfig ==
    /\ pc = "config"
    /\ \E manifest_exists \in BOOLEAN :
         IF manifest_exists
         THEN Goto("start") /\ log' = log
         ELSE SysExit /\ log' = Append(log, Ev("config_missing", "", "", 0))
    /\ UNCHANGED <<vstring, matched, args, platform, config, host, wpt_sha, report, summary, written>>

\* run.py:67-72: storage client and verify_gsutil_installed, only with --upload
SetupStorage ==
    /\ pc = "start"
    /\ IF ~args.upload
       THEN Goto("check_secret") /\ log' = log
       ELSE \E bucket_found \in BOOLEAN :
              IF bucket_found /\ host.gsutil
              THEN /\ Goto("check_secret")
                   /\ log' = Append(log, Ev("verify_gsutil", "", "", 0))
              ELSE Raise /\ log' = log
    /\ UNCHANGED <<vstring, matched, args, platform, config, host, wpt_sha, report, summary, written>>

\* faulty variant: the secret is not validated before the run
ValidSecret_Unchecked(c) == TRUE

\* run.py:75
ValidSecret(c) == c.secret_len = SecretLen

\* run.py:74-76
CheckSecret ==
    /\ pc = "check_secret"
    /\ IF args.create_testrun /\ ~ValidSecret(config)
       THEN Raise
       ELSE Goto("env")
    /\ UNCHANGED <<vstring, matched, args, platform, config, host, wpt_sha, report, summary, written, log>>

\* run.py:78: hosted (sauce) platforms skip the block of checks
SkipEnvChecks ==
    /\ pc = "env"
    /\ platform.sauce
    /\ Goto("setup")
    /\ UNCHANGED <<vstring, matched, args, platform, config, host, wpt_sha, report, summary, written, log>>

\* run.py:84-85: only chrome's binary is verified before the run
VerifyBrowserBefore ==
    /\ pc = "env"
    /\ ~platform.sauce
    /\ IF platform.browser_name = "chrome"
       THEN \E version \in BinaryVersions :
              /\ log' = Append(log, Ev("verify_browser", version, "before", 0))
              /\ IF verify_browser_binary_version(platform, version)
                 THEN Goto("os_name")
                 ELSE Raise
       ELSE Goto("os_name") /\ log' = log
    /\ UNCHANGED <<vstring, matched, args, platform, config, host, wpt_sha, report, summary, written>>

\* run.py:86
VerifyOsName ==
    /\ pc = "os_name"
    /\ log' = Append(log, Ev("verify_os_name", host.os_name, "", 0))
    /\ IF verify_os_name(platform, host) THEN Goto("os_version") ELSE Raise
    /\ UNCHANGED <<vstring, matched, args, platform, config, host, wpt_sha, report, summary, written>>

\* run.py:87
VerifyOrSetOsVersion ==
    /\ pc = "os_version"
    /\ LET r == verify_or_set_os_version(platform, host)
       IN /\ platform' = r.platform
          /\ log' = Append(log, Ev("verify_os_version", host.os_release, "", 0))
          /\ IF r.passed THEN Goto("setup") ELSE Raise
    /\ UNCHANGED <<vstring, matched, args, config, host, wpt_sha, report, summary, written>>

----------------------------------------------------------------------------
(* setup_wpt, run.py:247-267, and patch_wpt, run.py:381-402.               *)

\* faulty variant: the tree is reset after the manifest, not first
wpt_setup_commands_ResetLast == <<"git checkout master", "git pull",
                                  "./wpt manifest --work", "git reset --hard HEAD">>

\* run.py:248-253
wpt_setup_commands == <<"git reset --hard HEAD", "git checkout master",
                        "git pull", "./wpt manifest --work">>

\* run.py:254-258: one iteration of the loop over wpt_setup_commands
SetupCommand ==
    \E i \in 1..Len(wpt_setup_commands) :
      /\ pc = (IF i = 1 THEN "setup" ELSE wpt_setup_commands[i])
      /\ \E rc \in ExitCodes :
           /\ log' = Append(log, Ev("command", wpt_setup_commands[i], "", rc))
           /\ IF check_call(rc)
              THEN Goto(IF i < Len(wpt_setup_commands)
                        THEN wpt_setup_commands[i + 1] ELSE "patch")
              ELSE Raise
      /\ UNCHANGED <<vstring, matched, args, platform, config, host, wpt_sha, report, summary, written>>

\* run.py:399-402: Popen + communicate; TRUE = patch_wpt returns normally.
\* The exit code of `git apply` is never read.
patch_wpt(rc) == TRUE

\* run.py:260
PatchWpt ==
    /\ pc = "patch"
    /\ \E rc \in ExitCodes :
         /\ log' = Append(log, Ev("patch", platform.os_name, platform.os_version, rc))
         /\ IF patch_wpt(rc) THEN Goto("resolve") ELSE Raise
    /\ UNCHANGED <<vstring, matched, args, platform, config, host, wpt_sha, report, summary, written>>

\* faulty variant: HEAD is asked first, today's revision is the fallback
ResolveRevision_HeadFirst(explicit, today, head) ==
    IF Truthy(explicit)
    THEN [sha |-> explicit, queries |-> <<>>]
    ELSE IF Truthy(head)
         THEN [sha |-> head, queries |-> <<"get_head_sha">>]
         ELSE [sha |-> today, queries |-> <<"get_head_sha", "get_todays_sha">>]

\* run.py:262-267: the revision and the queries issued to find it, in order
ResolveRevision(explicit, today, head) ==
    IF Truthy(explicit)
    THEN [sha |-> explicit, queries |-> <<>>]
    ELSE IF Truthy(today)
         THEN [sha |-> today, queries |-> <<"get_todays_sha">>]
         ELSE [sha |-> head, queries |-> <<"get_todays_sha", "get_head_sha">>]

QueryEvents(queries, today, head) ==
    [i \in 1..Len(queries) |->
        Ev(queries[i], IF queries[i] = "get_todays_sha" THEN today ELSE head, "", 0)]

\* run.py:262-267 and main's assignment at run.py:97
SetupWptReturn ==
    /\ pc = "resolve"
    /\ \E today \in TodaysShaResults, head \in HeadShaResults :
         LET r == ResolveRevision(args.wpt_sha, today, head)
         IN /\ wpt_sha' = r.sha
            /\ log' = log \o QueryEvents(r.queries, today, head)
    /\ Goto("checkout")
    /\ UNCHANGED <<vstring, matched, args, platform, config, host, report, summary, written>>

\* run.py:101-105
CheckoutRevision ==
    /\ pc = "checkout"
    /\ \E rc \in ExitCodes :
         /\ log' = Append(log, Ev("command", "git checkout", wpt_sha, rc))
         /\ IF check_call(rc) THEN Goto("run") ELSE Raise
    /\ UNCHANGED <<vstring, matched, args, platform, config, host, wpt_sha, report, summary, written>>

----------------------------------------------------------------------------
(* main, run.py:127-244: the test run, the artifacts, the publication.     *)

\* faulty variant: the runner is started with check_call
RunnerCallPasses_CheckCall(rc) == rc = 0

\* run.py:171-175: subprocess.call returns the exit code, which is printed
\* and not read again; TRUE = main goes on
RunnerCallPasses(rc) == TRUE

\* run.py:130-171: subprocess.call; the exit code is only printed.  The
\* runner may or may not leave a report file behind.
RunWpt ==
    /\ pc = "run"
    /\ \E rc \in ExitCodes :
         /\ log' = Append(log, Ev("wptrun",
                                  IF platform.sauce THEN "sauce" ELSE "local",
                                  platform.browser_name, rc))
         /\ IF RunnerCallPasses(rc) THEN Goto("verify_after") ELSE Raise
    /\ \/ report' = NoReport
       \/ \E results \in RunnerReports :
            report' = [present |-> TRUE, results |-> results]
    /\ UNCHANGED <<vstring, matched, args, platform, config, host, wpt_sha, summary, written>>

\* run.py:177-180: firefox's installed binary is verified after the run
VerifyBrowserAfter ==
    /\ pc = "verify_after"
    /\ IF platform.browser_name = "firefox"
       THEN \E version \in BinaryVersions :
              /\ log' = Append(log, Ev("verify_browser", version, "after", 0))
              /\ IF verify_browser_binary_version(platform, version)
                 THEN Goto("read_report")
                 ELSE Raise
       ELSE Goto("read_report") /\ log' = log
    /\ UNCHANGED <<vstring, matched, args, platform, config, host, wpt_sha, report, summary, written>>

\* faulty variant: an empty report is accepted
NonEmptyReport_Unchecked(r) == TRUE

\* run.py:185-186
NonEmptyReport(r) == Len(r.results) > 0

\* run.py:182-186: open and parse the report, refuse an empty one
ReadReport ==
    /\ pc = "read_report"
    /\ IF report.present /\ NonEmptyReport(report)
       THEN Goto("summarize")
       ELSE Raise
    /\ UNCHANGED <<vstring, matched, args, platform, config, host, wpt_sha, report, summary, written, log>>

\* run.py:188
Summarize ==
    /\ pc = "summarize"
    /\ summary' = report_to_summary(report)
    /\ IF summary'.failed THEN Raise ELSE Goto("write_summary")
    /\ UNCHANGED <<vstring, matched, args, platform, config, host, wpt_sha, report, written, log>>

\* run.py:192 (write_gzip_json raises when the file cannot be written)
WriteSummary ==
    /\ pc = "write_summary"
    /\ \/ /\ log' = Append(log, Ev("write_summary", "", "", 0))
          /\ Goto("write_results")
       \/ Raise /\ log' = Append(log, Ev("write_failed", "", "", 1))
    /\ UNCHANGED <<vstring, matched, args, platform, config, host, wpt_sha, report, summary, written>>

\* run.py:197-201: one iteration of the loop over report['results']
WriteResult ==
    /\ pc = "write_results"
    /\ written < Len(report.results)
    /\ \/ /\ log' = Append(log, Ev("write_result",
                                   report.results[written + 1].test, "", 0))
          /\ written' = written + 1
          /\ Goto("write_results")
       \/ /\ log' = Append(log, Ev("write_failed",
                                   report.results[written + 1].test, "", 1))
          /\ written' = written
          /\ Raise
    /\ UNCHANGED <<vstring, matched, args, platform, config, host, wpt_sha, report, summary>>

\* run.py:203: main returns before the upload
StopsBeforeUpload(a) == ~a.upload

\* faulty variant: the registration is not gated at all
StopsBeforeTestRun_Never(a) == FALSE

\* run.py:217: main returns before the registration
StopsBeforeTestRun(a) == ~a.create_testrun

\* run.py:203-206
UploadGate ==
    /\ pc = "write_results"
    /\ written = Len(report.results)
    /\ IF StopsBeforeUpload(args) THEN Return ELSE Goto("upload")
    /\ UNCHANGED <<vstring, matched, args, platform, config, host, wpt_sha, report, summary, written, log>>

\* run.py:211: the destination bucket of the rsync
UploadBucket(c) == "wptd"

\* run.py:208-214
Upload ==
    /\ pc = "upload"
    /\ \E rc \in ExitCodes :
         /\ log' = Append(log, Ev("upload", UploadBucket(config), wpt_sha, rc))
         /\ IF check_call(rc) THEN Goto("testrun_gate") ELSE Raise
    /\ UNCHANGED <<vstring, matched, args, platform, config, host, wpt_sha, report, summary, written>>

\* run.py:217-221
TestRunGate ==
    /\ pc = "testrun_gate"
    /\ IF StopsBeforeTestRun(args) THEN Return ELSE Goto("create_testrun")
    /\ UNCHANGED <<vstring, matched, args, platform, config, host, wpt_sha, report, summary, written, log>>

\* run.py:238-241: what is printed for a response status
Reported(status_code) ==
    IF status_code = 201 THEN "Run created!"
    ELSE "There was an issue creating the TestRun."

\* faulty variant: a status other than 201 raises
AfterResponse_RaiseForStatus(status_code) == status_code = 201

\* run.py:238-244: what main does with a response; TRUE = returns normally
AfterResponse(status_code) == TRUE

\* run.py:223-244: the POST either raises (no response) or is answered
CreateTestRun ==
    /\ pc = "create_testrun"
    /\ \/ /\ log' = Append(log, Ev("post", platform.os_version,
                                   config.gs_results_bucket, 0))
          /\ Raise
       \/ \E status_code \in HttpStatuses :
            /\ log' = log \o << Ev("post", platform.os_version,
                                   config.gs_results_bucket, status_code),
                                Ev("print", Reported(status_code), "", status_code) >>
            /\ IF AfterResponse(status_code) THEN Return ELSE Raise
    /\ UNCHANGED <<vstring, matched, args, platform, config, host, wpt_sha, report, summary, written>>

Next ==
    \/ GetAndValidatePlatform
    \/ GetConfig
    \/ SetupStorage
    \/ CheckSecret
    \/ SkipEnvChecks
    \/ VerifyBrowserBefore
    \/ VerifyOsName
    \/ VerifyOrSetOsVersion
    \/ SetupCommand
    \/ PatchWpt
    \/ SetupWptReturn
    \/ CheckoutRevision
    \/ RunWpt
    \/ VerifyBrowserAfter
    \/ ReadReport
    \/ Summarize
    \/ WriteSummary
    \/ WriteResult
    \/ UploadGate
    \/ Upload
    \/ TestRunGate
    \/ CreateTestRun

Spec == Init /\ [][Next]_vars

----------------------------------------------------------------------------
(* report_to_summary on its own: the report is generated result by result  *)
(* and subtest by subtest within the bounds, then summarized.              *)

RECURSIVE SubtestCount(_, _)
SubtestCount(results, i) ==
    IF i > Len(results) THEN 0
    ELSE Len(results[i].subtests) + SubtestCount(results, i + 1)

InitSum ==
    /\ pc = "report"
    /\ outcome = "running"
    /\ args = [upload |-> FALSE, create_testrun |-> FALSE, wpt_sha |-> None]
    /\ platform = [browser_name |-> "chrome", browser_version |-> "56.0",
                   os_name |-> "linux", os_version |-> "16.04", sauce |-> FALSE]
    /\ config = [secret_len |-> SecretLen, gs_results_bucket |-> "wptd"]
    /\ host = [os_name |-> "linux", os_release |-> "16.04", gsutil |-> TRUE]
    /\ wpt_sha = None
    /\ report = [present |-> TRUE, results |-> <<>>]
    /\ summary = NoSummary
    /\ written = 0
    /\ log = <<>>
    /\ vstring = NoVersion
    /\ matched = NoMatch

GenResult ==
    /\ pc = "report"
    /\ Len(report.results) < MaxResults
    /\ \E t \in Paths, s \in Statuses :
         report' = [report EXCEPT !.results = Append(@, Res(t, s, <<>>))]
    /\ UNCHANGED <<vstring, matched, pc, outcome, args, platform, config, host, wpt_sha, summary,
                   written, log>>

GenSubtest ==
    /\ pc = "report"
    /\ Len(report.results) > 0
    /\ SubtestCount(report.results, 1) < MaxSubtests
    /\ \E s \in Statuses :
         report' = [report EXCEPT
                      !.results[Len(report.results)].subtests = Append(@, Sub(s))]
    /\ UNCHANGED <<vstring, matched, pc, outcome, args, platform, config, host, wpt_sha, summary,
                   written, log>>

\* run.py:188 applied to the generated report
SummarizeReport ==
    /\ pc = "report"
    /\ summary' = report_to_summary(report)
    /\ pc' = "done"
    /\ outcome' = IF summary'.failed THEN "failed" ELSE "ok"
    /\ UNCHANGED <<vstring, matched, args, platform, config, host, wpt_sha, report, written, log>>

NextSum == GenResult \/ GenSubtest \/ SummarizeReport

SpecSum == InitSum /\ [][NextSum]_vars

----------------------------------------------------------------------------
(* verify_or_set_os_version on its own: called up to MaxCalls times in a   *)
(* row on the same platform descriptor, the host unchanged in between.     *)

\* most calls of verify_or_set_os_version on one platform descriptor
MaxCalls == 3

InitOs ==
    /\ pc = "verify"
    /\ outcome = "running"
    /\ args = [upload |-> FALSE, create_testrun |-> FALSE, wpt_sha |-> None]
    /\ platform \in PlatformSet
    /\ config = [secret_len |-> SecretLen, gs_results_bucket |-> "wptd"]
    /\ host \in HostSet
    /\ wpt_sha = None
    /\ report = NoReport
    /\ summary = NoSummary
    /\ written = 0
    /\ log = <<>>
    /\ vstring = NoVersion
    /\ matched = NoMatch

\* run.py:305-315: one call; the history keeps the os_version it leaves
CallVerifyOrSetOsVersion ==
    /\ pc = "verify"
    /\ Len(log) < MaxCalls
    /\ LET r == verify_or_set_os_version(platform, host)
       IN /\ platform' = r.platform
          /\ log' = Append(log, Ev("verify_os_version", host.os_release,
                                   r.platform.os_version,
                                   IF r.passed THEN 0 ELSE 1))
          /\ IF r.passed THEN Goto("verify") ELSE Raise
    /\ UNCHANGED <<vstring, matched, args, config, host, wpt_sha, report, summary, written>>

\* the caller stops calling
StopVerifying ==
    /\ pc = "verify"
    /\ Return
    /\ UNCHANGED <<vstring, matched, args, platform, config, host, wpt_sha, report, summary,
                   written, log>>

NextOs == CallVerifyOrSetOsVersion \/ StopVerifying

SpecOs == InitOs /\ [][NextOs]_vars

----------------------------------------------------------------------------
(* Properties of report_to_summary, checked under SpecSum.                 *)

UniquePaths(results) ==
    \A i, j \in 1..Len(results) : i # j => results[i].test # results[j].test

TestPaths(results) == {results[i].test : i \in 1..Len(results)}

Summarized == pc = "done"

\* C1: for a report whose test paths are pairwise distinct, report_to_summary
\* returns a mapping with exactly one entry per test path of the report, and
\* every entry [passCount, totalCount] has 0 <= passCount <= totalCount,
\* totalCount >= 1 and totalCount = 1 + the number of subtests of that test.
C1_SummaryShape ==
    (Summarized /\ UniquePaths(report.results)) =>
        /\ ~summary.failed
        /\ DOMAIN summary.test_files = TestPaths(report.results)
        /\ \A i \in 1..Len(report.results) :
             LET counts == summary.test_files[report.results[i].test]
             IN /\ 0 <= counts[1]
                /\ counts[1] <= counts[2]
                /\ counts[2] >= 1
                /\ counts[2] = 1 + Len(report.results[i].subtests)

\* two distinct tests, one of them with a failing and a passing subtest
C1_Witness ==
    /\ Summarized
    /\ UniquePaths(report.results)
    /\ Len(report.results) = 2
    /\ report.results[1].subtests = <<Sub("FAIL"), Sub("PASS")>>
    /\ summary.test_files[report.results[1].test][2] = 3

PassingSubtests(result) ==
    Cardinality({j \in 1..Len(result.subtests) : result.subtests[j].status = "PASS"})

ExampleReport ==
    << Res("/a.html", "PASS", <<Sub("PASS"), Sub("FAIL")>>),
       Res("/b.html", "FAIL", <<>>) >>

\* C2: for every result of a report with unique test paths, passCount is
\* (1 if the top-level status is OK or PASS, else 0) plus the number of
\* subtests whose status is exactly PASS; any other subtest status, OK
\* included, adds to totalCount only.  The report {/a.html: PASS with
\* subtests [PASS, FAIL]; /b.html: FAIL} gives {/a.html: [2,3], /b.html: [0,1]}.
C2_PassCount ==
    (Summarized /\ UniquePaths(report.results)) =>
        /\ \A i \in 1..Len(report.results) :
             LET result == report.results[i]
                 top == IF result.status \in {"OK", "PASS"} THEN 1 ELSE 0
             IN summary.test_files[result.test] =
                    <<top + PassingSubtests(result), 1 + Len(result.subtests)>>
        /\ report.results = ExampleReport =>
             /\ DOMAIN summary.test_files = {"/a.html", "/b.html"}
             /\ summary.test_files["/a.html"] = <<2, 3>>
             /\ summary.test_files["/b.html"] = <<0, 1>>

\* a test whose subtests are OK and PASS: only the PASS one counts
C2_Witness ==
    /\ Summarized
    /\ Len(report.results) = 1
    /\ report.results[1].status = "FAIL"
    /\ report.results[1].subtests = <<Sub("OK"), Sub("PASS")>>
    /\ summary.test_files[report.results[1].test] = <<1, 3>>

\* C3: report_to_summary fails, returning no summary, for every report in
\* which two results at any positions carry the same test path.
C3_DuplicateRejected ==
    (Summarized /\ ~UniquePaths(report.results)) =>
        /\ summary.failed
        /\ outcome = "failed"

\* the first and the third result share a path, the second has another one
C3_Witness ==
    /\ Summarized
    /\ Len(report.results) = 3
    /\ report.results[1].test = report.results[3].test
    /\ report.results[2].test # report.results[1].test
    /\ summary.failed

----------------------------------------------------------------------------
(* Properties of a run, checked under Spec.                                *)

Ended == pc = "done"

\* the run ended with event i as its last step, by an exception
AbortedAt(i) == i = Len(log) /\ Ended /\ outcome = "failed"

\* C4: if the report the runner produced holds zero results, the run aborts
\* as failed: no summary and no per-test artifact is written, nothing is
\* uploaded and no registration POST is issued, whatever the flags are.
C4_EmptyReportAborts ==
    (report.present /\ Len(report.results) = 0) =>
        /\ ~Did("write_summary")
        /\ ~Did("write_result")
        /\ ~Did("upload")
        /\ ~Did("post")
        /\ pc \in {"verify_after", "read_report", "done"}
        /\ Ended => outcome = "failed"

\* an empty report ended a run that asked for upload and registration
C4_Witness ==
    /\ Ended
    /\ report.present
    /\ Len(report.results) = 0
    /\ args.upload
    /\ args.create_testrun
    /\ platform.browser_name # "firefox"
    /\ outcome = "failed"

\* C5: if a source-control step (reset, checkout/pull of the default branch,
\* manifest regeneration, checkout of the resolved revision) exits non-zero,
\* the run aborts at once: nothing follows it, and it is not retried.
C5_VcsFailureAborts ==
    \A i \in 1..Len(log) :
        (log[i].ev = "command" /\ log[i].rc # 0) => AbortedAt(i)

\* the pull failed after the reset and the checkout of master succeeded
C5_Witness ==
    /\ Len(log) >= 3
    /\ log[Len(log)].ev = "command"
    /\ log[Len(log)].a1 = "git pull"
    /\ log[Len(log)].rc # 0
    /\ log[Len(log) - 1] = Ev("command", "git checkout master", "", 0)
    /\ outcome = "failed"

\* C6: patch_wpt fails and the failure reaches its caller, so that the run
\* aborts before the revision checkout and the test run, whenever the
\* patch-apply process exits non-zero.
C6_PatchFailureAborts ==
    \A i \in 1..Len(log) :
        (log[i].ev = "patch" /\ log[i].rc # 0) => AbortedAt(i)

IsQuery(e) == e.ev \in {"get_todays_sha", "get_head_sha"}

Queries == SelectSeq(log, IsQuery)

\* setup_wpt has returned a revision
Resolved == Did("patch") /\ pc # "resolve"

\* C7: with an explicit (non-empty) revision the resolved revision is that
\* value and no discovery query is issued; otherwise today's designated
\* revision is asked for first and used if there is one, and HEAD is asked
\* for, and used, only if the first query yields nothing.
C7_RevisionResolution ==
    Resolved =>
        IF Truthy(args.wpt_sha)
        THEN wpt_sha = args.wpt_sha /\ Queries = <<>>
        ELSE /\ Len(Queries) >= 1
             /\ Queries[1].ev = "get_todays_sha"
             /\ IF Truthy(Queries[1].a1)
                THEN Len(Queries) = 1 /\ wpt_sha = Queries[1].a1
                ELSE /\ Len(Queries) = 2
                     /\ Queries[2].ev = "get_head_sha"
                     /\ wpt_sha = Queries[2].a1

\* no revision on the command line, none designated for today: HEAD is used
C7_Witness ==
    /\ Resolved
    /\ args.wpt_sha = None
    /\ Len(Queries) = 2
    /\ Queries[1] = Ev("get_todays_sha", None, "", 0)
    /\ wpt_sha = "sha_head"

EnvChecks == {"verify_browser", "verify_os_name", "verify_os_version"}

\* C8: in a run on a hosted (sauce) platform none of the environment checks
\* (OS name, OS version, browser binary version) is executed at any point,
\* before or after the test run, for every browser family.
C8_HostedSkipsEnvChecks ==
    platform.sauce => \A i \in 1..Len(log) : log[i].ev \notin EnvChecks

\* the run ended with every artifact written: it reached the publish stage
PublishReached ==
    /\ Ended
    /\ Did("write_summary")
    /\ written = Len(report.results)

UploadSucceeded == \E i \in 1..Len(log) : log[i].ev = "upload" /\ log[i].rc = 0

\* C9 as stated: in a run that reaches the publish stage the upload is
\* performed iff the upload opt-in is set, and the registration POST is
\* issued iff the registration opt-in is set, for all four combinations.
C9_IndependentGates ==
    PublishReached =>
        /\ Did("upload") <=> args.upload
        /\ Did("post") <=> args.create_testrun

\* C9 as amended: in a run that reaches the publish stage the upload is
\* performed iff the upload opt-in is set, and the registration POST is
\* issued iff both opt-ins are set and the upload succeeded.
C9_NestedGates ==
    PublishReached =>
        /\ Did("upload") <=> args.upload
        /\ Did("post") <=> (args.upload /\ args.create_testrun /\ UploadSucceeded)

\* registration asked for without upload: the run ends without a POST
C9_Witness ==
    /\ PublishReached
    /\ ~args.upload
    /\ args.create_testrun
    /\ ~Did("post")
    /\ outcome = "ok"

\* C10: once the registration POST is answered, the run ends successfully
\* whatever the HTTP status is; 201 is reported as success, any other status
\* as a failure, without raising.
C10_RegistrationRecoverable ==
    \A i \in 1..Len(log) :
        (log[i].ev = "post" /\ log[i].rc \in HttpStatuses) =>
            /\ Ended
            /\ outcome = "ok"
            /\ Len(log) = i + 1
            /\ log[i + 1].ev = "print"
            /\ (log[i + 1].a1 = "Run created!") <=> (log[i].rc = 201)

\* the endpoint answered 500 and the run still ended successfully
C10_Witness ==
    /\ Ended
    /\ outcome = "ok"
    /\ Len(log) >= 2
    /\ log[Len(log) - 1].ev = "post"
    /\ log[Len(log) - 1].rc = 500
    /\ log[Len(log)].a1 = "There was an issue creating the TestRun."

----------------------------------------------------------------------------
(* Further properties of a run, checked under Spec.                        *)

WorkSteps == EnvChecks \cup {"command", "patch", "get_todays_sha", "get_head_sha",
                             "wptrun", "write_summary", "write_result",
                             "upload", "post"}

\* C11: when the registration opt-in is set and the secret read from the
\* configuration (run/running.ini exists) is not exactly 64
\* characters long, the run aborts before any environment check, working-tree
\* command, test run and artifact write; so a registration POST is only ever
\* issued with a 64-character secret.
C11_SecretCheckedFirst ==
    /\ (args.create_testrun /\ config.secret_len # SecretLen
            /\ ~Did("config_missing")) =>
          /\ \A i \in 1..Len(log) : log[i].ev \notin WorkSteps
          /\ pc \in {"platform", "config", "start", "check_secret", "done"}
          /\ Ended => outcome = "failed"
    /\ Did("post") => config.secret_len = SecretLen

\* registration asked for with a 63-character secret: the run ended at once
C11_Witness ==
    /\ Ended
    /\ outcome = "failed"
    /\ args.create_testrun
    /\ ~args.upload
    /\ config.secret_len = SecretLen - 1
    /\ ~Did("config_missing")
    /\ ~Did("platform_unknown")

\* C12: for every configured bucket name the upload synchronizes the local
\* short-revision directory to gs://<configured bucket>/<short_revision>, the
\* bucket of the public results URL sent in the registration body.
C12_UploadToConfiguredBucket ==
    \A i \in 1..Len(log) :
        /\ log[i].ev = "upload" =>
              log[i].a1 = config.gs_results_bucket /\ log[i].a2 = wpt_sha
        /\ log[i].ev = "post" =>
              \A j \in 1..Len(log) : log[j].ev = "upload" => log[j].a1 = log[i].a2

LocalChromeOrFirefox ==
    ~platform.sauce /\ platform.browser_name \in {"chrome", "firefox"}

ArtifactWritten == Did("write_summary") \/ Did("write_result")

\* an environment check that observed something else than the platform declares
Mismatch(e) ==
    \/ e.ev = "verify_browser" /\ e.a1 # platform.browser_version
    \/ e.ev = "verify_os_name" /\ e.a1 # platform.os_name
    \/ e.ev = "verify_os_version" /\ e.a1 # platform.os_version

\* C13: in local mode with chrome or firefox an artifact is written only in
\* runs where the host OS name equals the declared os_name, the host OS
\* major.minor equals the declared os_version (or that was the wildcard, which
\* the check replaces by the host's), and the browser binary's major.minor
\* equals the declared browser_version; a mismatch in any of them is fatal and
\* is never followed by an artifact write, upload or registration.
C13_ArtifactsOnlyWhenVerified ==
    LocalChromeOrFirefox =>
        /\ ArtifactWritten =>
              /\ Did("verify_os_name") /\ host.os_name = platform.os_name
              /\ Did("verify_os_version") /\ host.os_release = platform.os_version
              /\ \E i \in 1..Len(log) :
                    log[i].ev = "verify_browser" /\ log[i].a1 = platform.browser_version
        /\ \A i \in 1..Len(log) : Mismatch(log[i]) => AbortedAt(i)

\* a local firefox run wrote its artifacts after the post-run check matched
C13_Witness ==
    /\ ~platform.sauce
    /\ platform.browser_name = "firefox"
    /\ Did("write_result")
    /\ \E i \in 1..Len(log) :
          log[i] = Ev("verify_browser", platform.browser_version, "after", 0)

----------------------------------------------------------------------------
(* Properties of verify_or_set_os_version, checked under SpecOs.           *)

\* C14: whenever verify_or_set_os_version returns without error,
\* platform.os_version is the host's concrete major.minor and not "*"; a
\* further call on the same platform with the host unchanged never fails and
\* leaves os_version as it is, whether the first call resolved a wildcard or
\* matched a declared version.
C14_VerifyOsVersionIdempotent ==
    \A i \in 1..Len(log) :
        (log[i].ev = "verify_os_version" /\ log[i].rc = 0) =>
            /\ log[i].a2 = host.os_release
            /\ log[i].a2 # "*"
            /\ i = Len(log) => platform.os_version = log[i].a2
            /\ i < Len(log) => log[i + 1].rc = 0 /\ log[i + 1].a2 = log[i].a2

\* two calls in a row returned and the host is not the release "16.04" a
\* platform can declare: the first call resolved a wildcard
C14_Witness ==
    /\ Len(log) = 2
    /\ log[1].rc = 0
    /\ log[2].rc = 0
    /\ host.os_release = "18.04"
    /\ platform.os_version = "18.04"

----------------------------------------------------------------------------
(* Properties of version_string_to_major_minor, checked under SpecVer.     *)

AllDigits(s, from, to) == \A k \in from..to : IsDigit(s[k])

\* s[i..i+a+b] is a digits, a literal dot, b digits
IsMajorMinorAt(s, i, a, b) ==
    /\ i >= 1
    /\ i + a + b <= Len(s)
    /\ AllDigits(s, i, i + a - 1)
    /\ s[i + a] = "."
    /\ AllDigits(s, i + a + 1, i + a + b)

MajorMinorStarts(s) ==
    {i \in 1..Len(s) : \E a, b \in 1..3 : IsMajorMinorAt(s, i, a, b)}

\* the leftmost such substring, as long as it can be from there
FirstMajorMinor(s) ==
    LET i == CHOOSE k \in MajorMinorStarts(s) :
                 \A m \in MajorMinorStarts(s) : k <= m
        a == CHOOSE x \in 1..3 : \E y \in 1..3 : IsMajorMinorAt(s, i, x, y)
        b == CHOOSE y \in 1..3 :
                 /\ IsMajorMinorAt(s, i, a, y)
                 /\ \A z \in 1..3 : IsMajorMinorAt(s, i, a, z) => z <= y
    IN SubSeq(s, i, i + a + b)

\* C15: for every string that contains 1-3 digits, a literal dot, 1-3 digits,
\* version_string_to_major_minor returns the first such substring whatever
\* surrounds it; for an empty or absent input, or one without such a
\* substring (a run of digits with no dot, say), it fails.
C15_VersionMatcher ==
    (pc = "done") =>
        IF ~vstring.absent /\ MajorMinorStarts(vstring.chars) # {}
        THEN ~matched.failed /\ matched.value = FirstMajorMinor(vstring.chars)
        ELSE matched.failed

----------------------------------------------------------------------------
(* Properties of the process exit, checked under Spec.                     *)

\* the fatal errors of a run that leave a trace in the history
FatalError(e) ==
    \/ e.ev \in {"platform_unknown", "config_missing"}
    \/ e.ev \in {"command", "upload"} /\ e.rc # 0
    \/ Mismatch(e)

\* C16: every fatal error ends the process with a non-zero exit status, and a
\* failed registration is the only failure after which it exits with success;
\* that includes the errors before the pipeline starts, an unknown platform
\* identifier and a missing configuration file.
C16_FatalErrorsExitNonZero ==
    Ended =>
        ((\E i \in 1..Len(log) : FatalError(log[i])) => outcome = "failed")

----------------------------------------------------------------------------
(* Order of the steps of a run, checked under Spec.                        *)

\* the place of a step in the sequence of spec section 4.5; 0 = not one of them
StepRank(e) ==
    IF e.ev = "command" /\ e.a1 = "git reset --hard HEAD" THEN 1
    ELSE IF e.ev = "command" /\ e.a1 = "git checkout master" THEN 2
    ELSE IF e.ev = "command" /\ e.a1 = "git pull" THEN 3
    ELSE IF e.ev = "command" /\ e.a1 = "./wpt manifest --work" THEN 4
    ELSE IF e.ev = "patch" THEN 5
    ELSE IF e.ev = "get_todays_sha" THEN 6
    ELSE IF e.ev = "get_head_sha" THEN 7
    ELSE IF e.ev = "command" /\ e.a1 = "git checkout" THEN 8
    ELSE IF e.ev = "wptrun" THEN 9
    ELSE IF e.ev = "verify_browser" /\ e.a2 = "after" THEN 10
    ELSE 0

IsStep(e) == StepRank(e) > 0

\* the steps of the run so far, in the order they were taken
Steps == SelectSeq(log, IsStep)

\* the steps that may come directly before the step of rank r: the revision
\* is resolved without a query, with one, or with both
DirectlyBefore(r) ==
    IF r = 8 THEN {5, 6, 7} ELSE IF r = 1 THEN {} ELSE {r - 1}

\* C17: in every run the steps occur at most once each and in this order, none
\* before the previous one completed: reset to HEAD, fast-forward to the
\* default branch, regenerate the manifest, apply the patch, resolve the
\* revision, check it out, invoke the test runner, re-verify the browser; so
\* the patch is never applied without a reset before it in the same run, and
\* the runner never starts before the resolved revision was checked out.
C17_StepOrder ==
    LET st == Steps
    IN \A k \in 1..Len(st) :
         IF k = 1
         THEN StepRank(st[k]) = 1
         ELSE /\ StepRank(st[k - 1]) \in DirectlyBefore(StepRank(st[k]))
              /\ st[k - 1].ev = "command" => st[k - 1].rc = 0
              /\ st[k].ev = "wptrun" =>
                    st[k - 1] = Ev("command", "git checkout", wpt_sha, 0)

\* a firefox run that asked for both revisions and went through all the steps
C17_Witness ==
    /\ Len(Queries) = 2
    /\ \E j \in 1..Len(log) : StepRank(log[j]) = 10
    /\ \E j \in 1..Len(log) : StepRank(log[j]) = 1

----------------------------------------------------------------------------
(* What follows the test run, checked under Spec.                          *)

\* the history after the test runner was called
AfterRun ==
    LET k == CHOOSE i \in 1..Len(log) : log[i].ev = "wptrun"
    IN SubSeq(log, k + 1, Len(log))

Names(events) == [i \in 1..Len(events) |-> events[i].ev]

IsPrefix(a, b) == Len(a) <= Len(b) /\ SubSeq(b, 1, Len(a)) = a

ReportUsable ==
    report.present /\ Len(report.results) > 0 /\ UniquePaths(report.results)

\* the steps a run takes after the runner when none of them fails; they
\* depend on the browser family, the report and the two opt-ins
StepsAfterRun ==
    (IF platform.browser_name = "firefox" THEN <<"verify_browser">> ELSE <<>>)
    \o (IF ~ReportUsable THEN <<>>
        ELSE <<"write_summary">>
             \o [i \in 1..Len(report.results) |-> "write_result"]
             \o (IF ~args.upload THEN <<>>
                 ELSE <<"upload">>
                      \o (IF args.create_testrun THEN <<"post", "print">>
                          ELSE <<>>)))

\* a step after the runner that ends the run as failed
FailedStep(e) ==
    \/ e.ev = "write_failed"
    \/ e.ev = "verify_browser" /\ e.a1 # platform.browser_version
    \/ e.ev = "upload" /\ e.rc # 0
    \/ e.ev = "post" /\ e.rc \notin HttpStatuses

\* C18: the runner's exit code never decides the outcome of a run.  Whatever
\* the exit code is, the steps after the runner are the same chain (browser
\* re-verification, report read and check, summary, artifact writes, upload,
\* registration), cut short only by one of those steps failing or by the
\* report being unusable, and the run fails in exactly those cases.
C18_ExitCodeIgnored ==
    Did("wptrun") =>
        LET tail == AfterRun
            done == IF tail # <<>> /\ tail[Len(tail)].ev = "write_failed"
                    THEN SubSeq(tail, 1, Len(tail) - 1) ELSE tail
            broken == tail # <<>> /\ FailedStep(tail[Len(tail)])
        IN /\ IsPrefix(Names(done), StepsAfterRun)
           /\ ~Ended => ~broken
           /\ Ended => (outcome = "failed" <=> (broken \/ ~ReportUsable))
           /\ (Ended /\ outcome = "ok") => Names(tail) = StepsAfterRun

\* the runner exited with 1 and the run still wrote, uploaded and registered
C18_Witness ==
    /\ Ended
    /\ outcome = "ok"
    /\ \E i \in 1..Len(log) : log[i].ev = "wptrun" /\ log[i].rc = 1
    /\ Did("write_result")
    /\ Did("post")

----------------------------------------------------------------------------
(* The os_version a run hands on, checked under Spec.                      *)

\* the os_version a step handed on: patch placeholder, registration body
OsVersionOf(e) == IF e.ev = "patch" THEN e.a2 ELSE e.a1

HandsOnOsVersion(e) == e.ev \in {"patch", "post"}

\* C19 as stated: in every run, local or hosted, the os_version put into the
\* patch placeholder and the one sent in the registration body is a concrete
\* version and never "*", also when the platform declares "*".
C19_OsVersionConcrete ==
    \A i \in 1..Len(log) :
        HandsOnOsVersion(log[i]) => OsVersionOf(log[i]) # "*"

\* C19 as amended: in every local run the os_version put into the patch
\* placeholder and the one sent in the registration body is the host's
\* concrete version, also when the platform declares "*"; a hosted run skips
\* the verification and hands on the declared os_version as it is, "*" included.
C19_OsVersionConcreteWhenLocal ==
    \A i \in 1..Len(log) :
        HandsOnOsVersion(log[i]) =>
            IF platform.sauce
            THEN OsVersionOf(log[i]) = platform.os_version
            ELSE OsVersionOf(log[i]) = host.os_release /\ OsVersionOf(log[i]) # "*"

\* a local run on a host no platform declares registered the host's version:
\* its platform declared the wildcard
C19_Witness ==
    /\ ~platform.sauce
    /\ host.os_release = "18.04"
    /\ \E i, j \in 1..Len(log) :
          /\ log[i].ev = "patch" /\ log[i].a2 = "18.04"
          /\ log[j].ev = "post" /\ log[j].a1 = "18.04"

----------------------------------------------------------------------------
(* What a registration refers to, checked under Spec.                      *)

\* the registration at position j comes after the summary, every per-test
\* artifact and a completed upload
AfterCompletedUpload(j) ==
    /\ written = Len(report.results)
    /\ \E s, u \in 1..(j - 1) :
          /\ s < u
          /\ log[s].ev = "write_summary"
          /\ log[u].ev = "upload" /\ log[u].rc = 0

\* the bucket of the registered results_url is one this run uploaded to
RefersToUploadedSummary(j) ==
    \E u \in 1..(j - 1) :
        /\ log[u].ev = "upload" /\ log[u].rc = 0
        /\ log[u].a1 = log[j].a2

\* C20: a registration POST is issued only after the summary and every
\* per-test artifact were written and the upload completed successfully, so
\* the registered results_url refers to a summary this run uploaded; a failed
\* upload is never followed by a registration.
C20_RegistersUploadedSummary ==
    \A j \in 1..Len(log) :
        /\ (log[j].ev = "post") =>
              AfterCompletedUpload(j) /\ RefersToUploadedSummary(j)
        /\ (log[j].ev = "upload" /\ log[j].rc # 0) => ~Did("post")

====
